---- MODULE Spec2Model ----
(***************************************************************************)
(* A model of the ishish node: the node loop of src/src/bin/node.rs, the   *)
(* block and chain types, proof of work and the mining worker of           *)
(* src/src/consensus.rs.                                                   *)
(*                                                                         *)
(* Option<T> values are sequences of length 0 (None) or 1 (Some).          *)
(* A SHA-256 digest is scaled down to HashLen bytes of ByteMod values, a   *)
(* U256 balance to arithmetic modulo U256Mod, a u64 to values below U64Mod.*)
(***************************************************************************)
EXTENDS Integers, Sequences, FiniteSets, TLC

\* ------------------------------------------------------------- bounds
MaxChain == 2
MaxPool == 1
CmdCap == 2
BlockCap == 1
MaxDifficulty == 1
MaxStartNonce == 0
MaxExt == 2
MaxAmount == 1
HashLen == 2
ByteMod == 4
U256Mod == 16
U64Mod == 4
MaxProbePool == 3
MaxProbeContent == 2
MaxProposePool == 4
MaxProbeChain == 3
MaxForkDifficulty == 2

\* -------------------------------------------------- program constants
BlockReward == 1
MaxBlockTx == 3

\* ------------------------------------------------------------ domains
Addr == {"A1", "A2"}
Wallets == {"A1"}
PeerAddr == "A2"
AddrCode(a) == IF a = "A1" THEN 1 ELSE 2
Amounts == 1..MaxAmount
\* The transactions peers gossip.
TxIn == [from : {"A1"}, to : {"A2"}, amount : Amounts]

RECURSIVE Pow(_, _)
Pow(b, e) == IF e = 0 THEN 1 ELSE b * Pow(b, e - 1)
\* A digest is the number its HashLen bytes spell, first byte lowest.
HashSpace == Pow(ByteMod, HashLen)
ZeroHash == 0
Min(a, b) == IF a < b THEN a ELSE b

\* ------------------------------------------------------------ hashing
TxCode(t) == (AddrCode(t.from) * 3 + AddrCode(t.to)) * (MaxAmount + 1) + t.amount
RECURSIVE ContentCode(_)
ContentCode(s) == IF s = <<>> THEN 0 ELSE (TxCode(Head(s)) + 31 * ContentCode(Tail(s)) + 1) % HashSpace

\* Sha256(serde_json::to_string(block)): a digest of every field of the block.
Sha256(b) == (AddrCode(b.coinbase) * 7 + b.number * 3 + b.nonce + b.difficulty * 11
              + b.cur_hash * 13 + b.prev_hash * 9 + ContentCode(b.content) * 17 + 1) % HashSpace

\* hash.iter().take(difficulty).all(|&b| b == 0)
LeadingZeros(h, d) == h % Pow(ByteMod, Min(d, HashLen)) = 0

validate_pow(block, d) == LeadingZeros(Sha256([block EXCEPT !.cur_hash = ZeroHash]), d)

\* ------------------------------------------------------------- blocks
\* The last k entries of a sequence where the first k are meant.
FirstK_Last(s, k) == SubSeq(s, Len(s) - Min(Len(s), k) + 1, Len(s))

\* The first k entries: transactions[i] for i in 0..len.min(k).
FirstK(s, k) == SubSeq(s, 1, Min(Len(s), k))

no_prev(coinbase, transactions, d) ==
    [coinbase |-> coinbase, number |-> 0, nonce |-> 0, difficulty |-> d,
     cur_hash |-> ZeroHash, prev_hash |-> ZeroHash,
     content |-> FirstK(transactions, MaxBlockTx)]

\* A successor that does not record the digest of the block before it.
from_prev_block_Unlinked(coinbase, transactions, prev, d) ==
    [coinbase |-> coinbase, number |-> prev.number + 1, nonce |-> 0, difficulty |-> d,
     cur_hash |-> ZeroHash, prev_hash |-> (prev.cur_hash + 1) % HashSpace,
     content |-> FirstK(transactions, MaxBlockTx)]

from_prev_block(coinbase, transactions, prev, d) ==
    [coinbase |-> coinbase, number |-> prev.number + 1, nonce |-> 0, difficulty |-> d,
     cur_hash |-> ZeroHash, prev_hash |-> prev.cur_hash,
     content |-> FirstK(transactions, MaxBlockTx)]

\* A proposal that never looks at the chain.
propose_block_Genesis(coinbase, blockchain, d, transactions) ==
    no_prev(coinbase, transactions, d)

propose_block(coinbase, blockchain, d, transactions) ==
    IF Len(blockchain) = 0
    THEN no_prev(coinbase, transactions, d)
    ELSE from_prev_block(coinbase, transactions, blockchain[Len(blockchain)], d)

\* The nonce search from a random first nonce: nonce += 1 until the digest
\* has d leading zero bytes.
RECURSIVE SearchNonce(_, _, _)
SearchNonce(block, d, nonce) ==
    IF LeadingZeros(Sha256([block EXCEPT !.nonce = nonce]), d)
    THEN nonce
    ELSE SearchNonce(block, d, nonce + 1)

\* A search that stops at its first nonce.
proof_of_work_FirstNonce(block, d, start) ==
    [block EXCEPT !.nonce = start, !.cur_hash = Sha256([block EXCEPT !.nonce = start])]

\* A search that adds 1 to the nonce once more after the digest was taken.
proof_of_work_NextNonce(block, d, start) ==
    LET n == SearchNonce(block, d, start)
    IN [block EXCEPT !.nonce = n + 1, !.cur_hash = Sha256([block EXCEPT !.nonce = n])]

proof_of_work(block, d, start) ==
    LET n == SearchNonce(block, d, start)
    IN [block EXCEPT !.nonce = n, !.cur_hash = Sha256([block EXCEPT !.nonce = n])]

\* ------------------------------------------------------------- chains
\* A verification that accepts every block.
verify_block_Any(block) == TRUE

verify_block(block) == validate_pow(block, block.difficulty)

\* A verification that checks each block and its link before the next block.
RECURSIVE verify_from(_, _)
verify_from(c, i) ==
    IF i > Len(c) THEN "Ok"
    ELSE IF ~verify_block(c[i]) THEN "InvalidProofOfWork"
    ELSE IF i > 1 /\ c[i].prev_hash # c[i - 1].cur_hash THEN "PrevHashMismatch"
    ELSE verify_from(c, i + 1)
verify_chain_Interleaved(c) == verify_from(c, 1)

verify_chain(c) ==
    IF \E i \in 1..Len(c) : ~verify_block(c[i]) THEN "InvalidProofOfWork"
    ELSE IF \E i \in 2..Len(c) : c[i].prev_hash # c[i - 1].cur_hash THEN "PrevHashMismatch"
    ELSE "Ok"

append(c, block) == IF verify_block(block) THEN Append(c, block) ELSE c

\* A fork choice that also adopts a chain of the length of the local one.
process_new_blockchain_Ties(new, cur) ==
    IF Len(new) >= Len(cur)
    THEN IF verify_chain(new) = "Ok" THEN new ELSE cur
    ELSE cur

\* A fork choice that adopts every chain that verifies, whatever its length.
process_new_blockchain_AnyLength(new, cur) ==
    IF verify_chain(new) = "Ok" THEN new ELSE cur

process_new_blockchain(new, cur) ==
    IF Len(new) > Len(cur)
    THEN IF verify_chain(new) = "Ok" THEN new ELSE cur
    ELSE cur

\* ------------------------------------------------------------- ledger
EmptyDb == [a \in Addr |-> 0]

RECURSIVE RemoveFirst(_, _)
RemoveFirst(s, t) == IF s = <<>> THEN <<>>
                     ELSE IF Head(s) = t THEN Tail(s)
                     ELSE <<Head(s)>> \o RemoveFirst(Tail(s), t)

\* A transaction applied without the removal from the pool.
apply_tx_KeepPool(st, tx) ==
    LET fromBal == st.db[tx.from]
        toBal == st.db[tx.to]
        db1 == [st.db EXCEPT ![tx.from] = (fromBal - tx.amount) % U256Mod]
        db2 == [db1 EXCEPT ![tx.to] = (toBal + tx.amount) % U256Mod]
    IN [db |-> db2, pool |-> st.pool]

\* One transaction of a block: both accounts are read, then both are written.
apply_tx(st, tx) ==
    LET fromBal == st.db[tx.from]
        toBal == st.db[tx.to]
        db1 == [st.db EXCEPT ![tx.from] = (fromBal - tx.amount) % U256Mod]
        db2 == [db1 EXCEPT ![tx.to] = (toBal + tx.amount) % U256Mod]
    IN [db |-> db2, pool |-> RemoveFirst(st.pool, tx)]

RECURSIVE apply_txs(_, _)
apply_txs(st, txs) == IF txs = <<>> THEN st ELSE apply_txs(apply_tx(st, Head(txs)), Tail(txs))

\* A block applied with the reward added to a fresh account instead of the
\* account loaded from the ledger.
progress_state_RewardOnDefault(db, block, transactions) ==
    LET db1 == [db EXCEPT ![block.coinbase] = BlockReward % U256Mod]
    IN apply_txs([db |-> db1, pool |-> transactions], block.content)

progress_state(db, block, transactions) ==
    LET db1 == [db EXCEPT ![block.coinbase] = (db[block.coinbase] + BlockReward) % U256Mod]
    IN apply_txs([db |-> db1, pool |-> transactions], block.content)

RECURSIVE refresh_blocks(_, _)
refresh_blocks(st, blocks) ==
    IF blocks = <<>> THEN st
    ELSE refresh_blocks(progress_state(st.db, Head(blocks), st.pool), Tail(blocks))

refresh_state(db, c, transactions) == refresh_blocks([db |-> db, pool |-> transactions], c)

\* balance.to::<u64>(): the value when it fits a u64, <<>> when the conversion panics.
get_balance(db, address) == IF db[address] < U64Mod THEN <<db[address]>> ELSE <<>>

\* ----------------------------------------------------------- commands
MineBlockCmd(b) == [type |-> "MineBlock", block |-> <<b>>]
StartCmd == [type |-> "Start", block |-> <<>>]
StopCmd == [type |-> "Stop", block |-> <<>>]
RestartCmd == [type |-> "Restart", block |-> <<>>]

\* A command branch where Stop leaves running as it is.
mining_task_cmd_StopIgnored(cur, run, cmd) ==
    CASE cmd.type = "MineBlock" -> [current |-> cmd.block, running |-> run]
      [] cmd.type = "Stop" -> [current |-> cur, running |-> run]
      [] cmd.type = "Start" -> [current |-> cur, running |-> TRUE]
      [] cmd.type = "Restart" -> [current |-> cur, running |-> TRUE]

\* A command branch where MineBlock keeps a candidate the worker already holds.
mining_task_cmd_KeepCandidate(cur, run, cmd) ==
    CASE cmd.type = "MineBlock" ->
             [current |-> IF cur = <<>> THEN cmd.block ELSE cur, running |-> run]
      [] cmd.type = "Stop" -> [current |-> cur, running |-> FALSE]
      [] cmd.type = "Start" -> [current |-> cur, running |-> TRUE]
      [] cmd.type = "Restart" -> [current |-> cur, running |-> TRUE]

\* A command branch where MineBlock also starts the worker.
mining_task_cmd_MineStarts(cur, run, cmd) ==
    CASE cmd.type = "MineBlock" -> [current |-> cmd.block, running |-> TRUE]
      [] cmd.type = "Stop" -> [current |-> cur, running |-> FALSE]
      [] cmd.type = "Start" -> [current |-> cur, running |-> TRUE]
      [] cmd.type = "Restart" -> [current |-> cur, running |-> TRUE]

\* A command branch where only Restart, never Start, sets the worker running.
mining_task_cmd_StartIgnored(cur, run, cmd) ==
    CASE cmd.type = "MineBlock" -> [current |-> cmd.block, running |-> run]
      [] cmd.type = "Stop" -> [current |-> cur, running |-> FALSE]
      [] cmd.type = "Start" -> [current |-> cur, running |-> run]
      [] cmd.type = "Restart" -> [current |-> cur, running |-> TRUE]

\* A command branch where Stop also drops the candidate.
mining_task_cmd_StopDrops(cur, run, cmd) ==
    CASE cmd.type = "MineBlock" -> [current |-> cmd.block, running |-> run]
      [] cmd.type = "Stop" -> [current |-> <<>>, running |-> FALSE]
      [] cmd.type = "Start" -> [current |-> cur, running |-> TRUE]
      [] cmd.type = "Restart" -> [current |-> cur, running |-> TRUE]

\* The command branch of the worker's select: the new (current_block, running).
mining_task_cmd(cur, run, cmd) ==
    CASE cmd.type = "MineBlock" -> [current |-> cmd.block, running |-> run]
      [] cmd.type = "Stop" -> [current |-> cur, running |-> FALSE]
      [] cmd.type = "Start" -> [current |-> cur, running |-> TRUE]
      [] cmd.type = "Restart" -> [current |-> cur, running |-> TRUE]

\* -------------------------------------------------------------- state
VARIABLES
    chain,       \* my_blockchain.blocks
    ledger,      \* my_evm.db: balance of every address
    pool,        \* my_transactions
    signer,      \* current_signer: Option<address>
    difficulty,  \* the configured difficulty
    cmdChan,     \* command_tx -> command_rx
    blockChan,   \* block_tx -> block_rx
    current,     \* worker: current_block: Option<block>
    running,     \* worker: running
    node,        \* "up", the panic that ended the process, or "exited" (main returned Err)
    stopped,     \* history: the last Start/Restart/Stop the worker processed was a Stop
    lastMB,      \* history: the block of the last MineBlock processed since the last emission
    superseded,  \* history: that MineBlock replaced a different candidate
    nbmSent,     \* the chains handed to gossipsub.publish as NBM frames, in order
    probe,       \* a function applied on its own: its arguments and its result
    nodeSend,    \* node loop inside a handler: what it still has to send, in order
    workerSend   \* worker inside block_tx.send: Option<the block it mined>

nodeVars == <<chain, ledger, pool, signer, difficulty, node>>
workerVars == <<current, running, stopped, lastMB, superseded>>
\* The sends a task is waiting in, when the handlers are followed send by send.
sendVars == <<nodeSend, workerSend>>
\* What only the mined-block branch, the function probes and the handlers
\* followed send by send write.
outVars == <<nbmSent, probe, sendVars>>
vars == <<chain, ledger, pool, signer, difficulty, cmdChan, blockChan, current, running,
          node, stopped, lastMB, superseded, nbmSent, probe, nodeSend, workerSend>>

Init ==
    /\ chain = <<>>
    /\ ledger = EmptyDb
    /\ pool = <<>>
    /\ signer = <<>>
    /\ difficulty \in 1..MaxDifficulty
    /\ cmdChan = <<>>
    /\ blockChan = <<>>
    /\ current = <<>>
    /\ running = FALSE
    /\ node = "up"
    /\ stopped = FALSE
    /\ lastMB = <<>>
    /\ superseded = FALSE
    /\ nbmSent = <<>>
    /\ probe = <<>>
    /\ nodeSend = <<>>
    /\ workerSend = <<>>

\* The process runs; runs are followed until the chain holds MaxChain blocks.
Active == node = "up" /\ Len(chain) < MaxChain

\* The process is gone (a panic, or main returned Err): its memory with it.
Gone(how) ==
    /\ node' = how
    /\ chain' = <<>> /\ ledger' = EmptyDb /\ pool' = <<>> /\ signer' = <<>>
    /\ cmdChan' = <<>> /\ blockChan' = <<>> /\ current' = <<>> /\ running' = FALSE
    /\ stopped' = FALSE
    /\ lastMB' = <<>> /\ superseded' = FALSE
    /\ UNCHANGED <<difficulty, outVars>>

\* ------------------------------------------------------ stdin commands
\* A line read at a prompt for an address: empty, an address, or malformed.
AddrLines == {<<>>, <<"zz">>} \cup {<<a>> : a \in Addr}
SrcLines == {<<>>, <<"zz">>}
DstLines == {<<"A2">>, <<"zz">>}
AmountLines == {<<>>} \cup {<<n>> : n \in Amounts}
\* Address::parse_checksummed
ParsesAddr(line) == line # <<>> /\ line[1] \in Addr

CmdStart ==
    /\ Active
    /\ IF signer # <<>>
       THEN /\ Len(cmdChan) + 2 <= CmdCap
            /\ cmdChan' = cmdChan \o
                 <<MineBlockCmd(propose_block(signer[1], chain, difficulty, pool)), StartCmd>>
       ELSE UNCHANGED cmdChan
    /\ UNCHANGED <<nodeVars, blockChan, workerVars, outVars>>

CmdStop ==
    /\ Active
    /\ Len(cmdChan) < CmdCap
    /\ cmdChan' = Append(cmdChan, StopCmd)
    /\ UNCHANGED <<nodeVars, blockChan, workerVars, outVars>>

\* Wallet::decrypt_keystore succeeds with a wallet of the keystore or fails.
CmdOpen ==
    /\ Active
    /\ signer' \in {<<>>} \cup {<<w>> : w \in Wallets}
    /\ UNCHANGED <<chain, ledger, pool, difficulty, node, cmdChan, blockChan, workerVars, outVars>>

\* The address a prompt yields: an empty line unwraps the signer, any other is
\* parsed with expect; <<>> when the read panics.
PromptAddr(line) == IF line = <<>> THEN signer
                    ELSE IF ParsesAddr(line) THEN line ELSE <<>>

\* The panic of a prompt that yields no address: unwrap of a None signer, or
\* expect("valid checksum").
PromptPanic(line) == IF line = <<>> THEN "unwrap_none" ELSE "expect_address"

\* get_balance: the balance of the address is read out and printed.
CmdGetBalance(line) ==
    /\ Active
    /\ LET address == PromptAddr(line)
       IN IF address = <<>> THEN Gone(PromptPanic(line))
          ELSE IF get_balance(ledger, address[1]) = <<>> THEN Gone("to_u64")
          ELSE UNCHANGED vars

CmdPrintPool ==
    /\ Active
    /\ UNCHANGED vars

CmdSendIsh(srcLine, dstLine, amountLine) ==
    /\ Active
    /\ LET src == PromptAddr(srcLine)
           dst == PromptAddr(dstLine)
       IN IF src = <<>> THEN Gone(PromptPanic(srcLine))
          ELSE IF dst = <<>> THEN Gone(PromptPanic(dstLine))
          ELSE IF amountLine = <<>> THEN Gone("unwrap_amount")
          ELSE LET transaction == [from |-> src[1], to |-> dst[1], amount |-> amountLine[1]]
               IN /\ Len(pool) < MaxPool
                  /\ pool' = Append(pool, transaction)
                  /\ UNCHANGED <<chain, ledger, signer, difficulty, node,
                                 cmdChan, blockChan, workerVars, outVars>>

CmdUnknown ==
    /\ Active
    /\ UNCHANGED vars

\* ---------------------------------------------------- mined-block branch
\* A mined-block branch that hands the worker no next candidate.
NodeMined_NoRepropose ==
    /\ Active
    /\ blockChan # <<>>
    /\ LET mined_block == Head(blockChan)
           st == progress_state(ledger, mined_block, pool)
           bc == append(chain, mined_block)
       IN IF signer = <<>>
          THEN Gone("unwrap_none_mined")
          ELSE /\ blockChan' = Tail(blockChan)
               /\ ledger' = st.db
               /\ pool' = st.pool
               /\ chain' = bc
               /\ nbmSent' = Append(nbmSent, bc)
               /\ UNCHANGED <<signer, difficulty, node, cmdChan, workerVars, probe, sendVars>>

NodeMined ==
    /\ Active
    /\ blockChan # <<>>
    /\ LET mined_block == Head(blockChan)
           st == progress_state(ledger, mined_block, pool)
           bc == append(chain, mined_block)
       IN IF signer = <<>>
          THEN Gone("unwrap_none_mined")
          ELSE /\ Len(cmdChan) < CmdCap
               /\ blockChan' = Tail(blockChan)
               /\ ledger' = st.db
               /\ pool' = st.pool
               /\ chain' = bc
               /\ cmdChan' = Append(cmdChan,
                     MineBlockCmd(propose_block(signer[1], bc, difficulty, st.pool)))
               /\ nbmSent' = Append(nbmSent, bc)
               /\ UNCHANGED <<signer, difficulty, node, workerVars, probe, sendVars>>

\* ---------------------------------------------------------- gossip branch
\* The chains peers advertise. A peer runs this program on the local chain
\* (or from nothing) with the same pending transactions and mines up to
\* MaxExt blocks; an adversarial peer then alters the last block.
PeerMine(c, d, txs) == Append(c, proof_of_work(propose_block(PeerAddr, c, d, txs), d, 0))

RECURSIVE PeerExtend(_, _, _, _)
PeerExtend(c, n, d, txs) ==
    IF n = 0 THEN c ELSE PeerExtend(PeerMine(c, d, txs), n - 1, d, <<>>)

Remine(b) == proof_of_work([b EXCEPT !.nonce = 0, !.cur_hash = ZeroHash], b.difficulty, 0)
OtherHash(h) == (h + 1) % HashSpace
TamperKinds == {"nonce", "relink", "number"}
Tamper(c, kind) ==
    LET b == c[Len(c)]
        t == CASE kind = "nonce" -> [b EXCEPT !.nonce = b.nonce + 1]
               [] kind = "relink" -> Remine([b EXCEPT !.prev_hash = OtherHash(b.prev_hash)])
               [] kind = "number" -> Remine([b EXCEPT !.number = b.number + 1])
    IN [c EXCEPT ![Len(c)] = t]

RecvChains(c, d, txs) ==
    LET honest == {PeerExtend(p[1], p[2], d, txs) :
                      p \in {q \in {<<>>, c} \X (0..MaxExt) : Len(q[1]) + q[2] <= MaxChain}}
    IN honest \cup {Tamper(h, k) : h \in {x \in honest : Len(x) > Len(c)}, k \in TamperKinds}

\* An NBM branch that ignores a chain with a block that declares less than
\* the configured difficulty.
GossipNBM_Configured(new_blockchain) ==
    /\ Active
    /\ LET bc == IF \A i \in 1..Len(new_blockchain) : new_blockchain[i].difficulty >= difficulty
                 THEN process_new_blockchain(new_blockchain, chain)
                 ELSE chain
           st == refresh_state(EmptyDb, bc, pool)
       IN /\ chain' = bc
          /\ ledger' = st.db
          /\ pool' = st.pool
          /\ IF signer # <<>>
             THEN /\ Len(cmdChan) < CmdCap
                  /\ cmdChan' = Append(cmdChan,
                        MineBlockCmd(propose_block(signer[1], bc, difficulty, st.pool)))
             ELSE UNCHANGED cmdChan
    /\ UNCHANGED <<signer, difficulty, node, blockChan, workerVars, outVars>>

GossipNBM(new_blockchain) ==
    /\ Active
    /\ LET bc == process_new_blockchain(new_blockchain, chain)
           st == refresh_state(EmptyDb, bc, pool)
       IN /\ chain' = bc
          /\ ledger' = st.db
          /\ pool' = st.pool
          /\ IF signer # <<>>
             THEN /\ Len(cmdChan) < CmdCap
                  /\ cmdChan' = Append(cmdChan,
                        MineBlockCmd(propose_block(signer[1], bc, difficulty, st.pool)))
             ELSE UNCHANGED cmdChan
    /\ UNCHANGED <<signer, difficulty, node, blockChan, workerVars, outVars>>

\* A TRA branch that puts the transaction at the head of the pool.
PushTRA_Front(transaction, cap) ==
    /\ Active
    /\ Len(pool) < cap
    /\ pool' = <<transaction>> \o pool
    /\ UNCHANGED <<chain, ledger, signer, difficulty, node, cmdChan, blockChan, workerVars, outVars>>

\* The TRA branch on a frame that carries a transaction; the pool is followed
\* up to cap entries.
PushTRA(transaction, cap) ==
    /\ Active
    /\ Len(pool) < cap
    /\ pool' = Append(pool, transaction)
    /\ UNCHANGED <<chain, ledger, signer, difficulty, node, cmdChan, blockChan, workerVars, outVars>>

GossipTRA(transaction) == PushTRA(transaction, MaxPool)

\* A frame as its bytes: ASCII letters, "L" the first and "C" the second byte
\* of a two-byte character, "X" a byte that is never valid UTF-8.
RawFrames ==
    {<<>>, <<"N">>, <<"N", "B">>, <<"N", "B", "M">>, <<"T", "R", "A", "x">>,
     <<"x", "B", "M">>, <<"X", "B", "M">>, <<"N", "B", "L", "C">>, <<"L", "C", "M">>,
     <<"N", "B", "L">>}

\* std::str::from_utf8 succeeds.
RECURSIVE ValidUtf8(_)
ValidUtf8(value) ==
    IF value = <<>> THEN TRUE
    ELSE IF Head(value) \in {"C", "X"} THEN FALSE
    ELSE IF Head(value) = "L"
         THEN Len(value) >= 2 /\ value[2] = "C" /\ ValidUtf8(Tail(Tail(value)))
    ELSE ValidUtf8(Tail(value))

\* str::is_char_boundary at a byte offset (counted from 0).
IsCharBoundary(value, offset) ==
    \/ offset = 0
    \/ offset = Len(value)
    \/ offset < Len(value) /\ value[offset + 1] # "C"

\* IshIshBlockchainEvent::try_from: "SlicePanic" when &value_str[..3] panics.
try_from(value) ==
    IF ~ValidUtf8(value) THEN [kind |-> "ParseError", message |-> <<>>]
    ELSE IF ~IsCharBoundary(value, 3) THEN [kind |-> "SlicePanic", message |-> <<>>]
    ELSE LET header == SubSeq(value, 1, 3)
             message == SubSeq(value, 4, Len(value))
         IN IF header = <<"N", "B", "M">> THEN [kind |-> "NewBlockMined", message |-> message]
            ELSE IF header = <<"T", "R", "A">>
                 THEN [kind |-> "NewSignedTransaction", message |-> message]
            ELSE [kind |-> "SthElse", message |-> message]

\* serde_json::from_str on the payload of a raw frame: no text of these bytes
\* is the serialization of a chain or of a transaction.
from_str_ok(message) == FALSE

\* A frame that is not the serialization of a chain or a transaction.
GossipFrame(value) ==
    /\ Active
    /\ LET event == try_from(value)
       IN CASE event.kind = "SlicePanic" -> Gone("slice")
            [] event.kind = "ParseError" -> Gone("exited")
            [] event.kind \in {"NewBlockMined", "NewSignedTransaction"} ->
                   IF from_str_ok(event.message) THEN UNCHANGED vars ELSE Gone("exited")
            [] event.kind = "SthElse" -> UNCHANGED vars

\* ----------------------------------------------------------- mining worker
\* Two blocks that agree in everything but nonce and cur_hash.
SameCandidate(a, b) ==
    /\ a.coinbase = b.coinbase /\ a.number = b.number /\ a.difficulty = b.difficulty
    /\ a.prev_hash = b.prev_hash /\ a.content = b.content

WorkerRecv ==
    /\ Active
    /\ cmdChan # <<>>
    /\ LET cmd == Head(cmdChan)
           w == mining_task_cmd(current, running, cmd)
       IN /\ cmdChan' = Tail(cmdChan)
          /\ current' = w.current
          /\ running' = w.running
          /\ stopped' = IF cmd.type = "Stop" THEN TRUE
                        ELSE IF cmd.type \in {"Start", "Restart"} THEN FALSE ELSE stopped
          /\ lastMB' = IF cmd.type = "MineBlock" THEN cmd.block ELSE lastMB
          /\ superseded' = IF cmd.type = "MineBlock"
                           THEN current # <<>> /\ ~SameCandidate(current[1], cmd.block[1])
                           ELSE superseded
    /\ UNCHANGED <<nodeVars, blockChan, outVars>>

\* A mining branch that keeps the candidate it has sent.
WorkerMine_KeepsCandidate ==
    /\ Active
    /\ running /\ current # <<>>
    /\ Len(blockChan) < BlockCap
    /\ \E start \in 0..MaxStartNonce :
          blockChan' = Append(blockChan, proof_of_work(current[1], current[1].difficulty, start))
    /\ lastMB' = <<>>
    /\ UNCHANGED <<nodeVars, cmdChan, current, running, stopped, superseded, outVars>>

\* The mining branch of the select while running with a candidate: the whole
\* nonce search runs inside one poll, then the block is sent.
WorkerMine ==
    /\ Active
    /\ running /\ current # <<>>
    /\ Len(blockChan) < BlockCap
    /\ \E start \in 0..MaxStartNonce :
          blockChan' = Append(blockChan, proof_of_work(current[1], current[1].difficulty, start))
    /\ current' = <<>>
    /\ lastMB' = <<>>
    /\ UNCHANGED <<nodeVars, cmdChan, running, stopped, superseded, outVars>>

\* The mining branch while idle: the async block is ready at once with None,
\* the select completes on it and the loop goes round.
WorkerNone ==
    /\ Active
    /\ ~running \/ current = <<>>
    /\ UNCHANGED vars

Next ==
    \/ CmdStart
    \/ CmdStop
    \/ CmdOpen
    \/ \E line \in AddrLines : CmdGetBalance(line)
    \/ CmdPrintPool
    \/ \E s \in SrcLines, d \in DstLines, a \in AmountLines : CmdSendIsh(s, d, a)
    \/ CmdUnknown
    \/ NodeMined
    \/ \E c \in RecvChains(chain, difficulty, pool) : GossipNBM(c)
    \/ \E t \in TxIn : GossipTRA(t)
    \/ \E value \in RawFrames : GossipFrame(value)
    \/ WorkerRecv
    \/ WorkerMine
    \/ WorkerNone

Spec == Init /\ [][Next]_vars

\* ------------------------------------------------------------ scenarios
\* The tokio scheduler runs a task that is ready, and a select with a ready
\* branch takes it with probability 1 over repeated iterations: the worker
\* and the mined-block branch of the node loop are weakly fair.
Fairness == WF_vars(WorkerRecv) /\ WF_vars(WorkerMine) /\ WF_vars(NodeMined)

\* open is typed while no wallet is open.
ScenOpen == signer = <<>> /\ CmdOpen

\* start is typed while the worker is idle and was given nothing yet.
ColdStart == ~running /\ current = <<>> /\ cmdChan = <<>> /\ blockChan = <<>> /\ CmdStart

\* send_ish is typed with well-formed answers while a wallet is open.
ScenSendIsh == signer # <<>> /\ \E a \in Amounts : CmdSendIsh(<<>>, <<"A2">>, <<a>>)

\* Cold start: a user who opens a wallet and types start once, and who may
\* send and stop; no gossip arrives.
ColdNext ==
    \/ ScenOpen
    \/ ColdStart
    \/ CmdStop
    \/ ScenSendIsh
    \/ CmdPrintPool
    \/ NodeMined
    \/ WorkerRecv
    \/ WorkerMine
    \/ WorkerNone

SpecCold == Init /\ [][ColdNext]_vars /\ Fairness

\* start is typed again once the worker has taken a Stop.
ReStart == stopped /\ CmdStart

\* Cancellation: the same user, who may stop the worker and start it again.
CancelNext ==
    \/ ScenOpen
    \/ ColdStart
    \/ ReStart
    \/ CmdStop
    \/ ScenSendIsh
    \/ CmdPrintPool
    \/ NodeMined
    \/ WorkerRecv
    \/ WorkerMine
    \/ WorkerNone

SpecCancel == Init /\ [][CancelNext]_vars /\ Fairness

\* ------------------------------------------------------ functions on their own
\* Sequences over S of at most n elements.
SeqsUpTo(S, n) == UNION {[1..k -> S] : k \in 0..n}

\* Every transaction a pool or a block can hold: send_ish and TRA frames take
\* any two addresses, the same one twice included.
AllTx == [from : Addr, to : Addr, amount : Amounts]
Balances == {0, 1, U256Mod - 1}

\* progress_state reads the coinbase and the content of a block only.
ContentBlock(coinbase, content) ==
    [coinbase |-> coinbase, number |-> 0, nonce |-> 0, difficulty |-> 0,
     cur_hash |-> ZeroHash, prev_hash |-> ZeroHash, content |-> content]

\* progress_state applied to a ledger, a block and a pool.
ProbeProgress ==
    /\ probe = <<>>
    /\ \E db \in [Addr -> Balances], coinbase \in Addr,
          content \in SeqsUpTo(AllTx, MaxProbeContent),
          transactions \in SeqsUpTo(AllTx, MaxProbePool) :
          probe' = <<[fn |-> "progress_state", db |-> db,
                      block |-> ContentBlock(coinbase, content), pool |-> transactions,
                      result |-> progress_state(db, ContentBlock(coinbase, content), transactions)]>>
    /\ UNCHANGED <<nodeVars, cmdChan, blockChan, workerVars, nbmSent, sendVars>>

SpecLedger == Init /\ [][ProbeProgress]_vars

\* The worker on its own: any sender on the command channel, any receiver
\* on the block channel. The blocks of MineBlock commands are proposals.
Candidates ==
    {propose_block(w, c, d, txs) :
        w \in Wallets, c \in {<<>>, PeerExtend(<<>>, 1, 1, <<>>)},
        d \in 1..MaxDifficulty, txs \in SeqsUpTo(TxIn, 1)}
WorkerCmds == {MineBlockCmd(b) : b \in Candidates} \cup {StartCmd, StopCmd, RestartCmd}

Feed ==
    /\ Active
    /\ Len(cmdChan) < CmdCap
    /\ \E cmd \in WorkerCmds : cmdChan' = Append(cmdChan, cmd)
    /\ UNCHANGED <<nodeVars, blockChan, workerVars, outVars>>

Drain ==
    /\ Active
    /\ blockChan # <<>>
    /\ blockChan' = Tail(blockChan)
    /\ UNCHANGED <<nodeVars, cmdChan, workerVars, outVars>>

WorkerNext ==
    \/ Feed
    \/ Drain
    \/ WorkerRecv
    \/ WorkerMine
    \/ WorkerNone

SpecWorker == Init /\ [][WorkerNext]_vars

\* Nodes started with any difficulty argument, among peers that mine at any
\* difficulty: the difficulty a received block declares is the peer's.
InitFork ==
    /\ chain = <<>>
    /\ ledger = EmptyDb
    /\ pool = <<>>
    /\ signer = <<>>
    /\ difficulty \in 0..MaxForkDifficulty
    /\ cmdChan = <<>>
    /\ blockChan = <<>>
    /\ current = <<>>
    /\ running = FALSE
    /\ node = "up"
    /\ stopped = FALSE
    /\ lastMB = <<>>
    /\ superseded = FALSE
    /\ nbmSent = <<>>
    /\ probe = <<>>
    /\ nodeSend = <<>>
    /\ workerSend = <<>>

ForkChains == UNION {RecvChains(chain, dd, pool) : dd \in 0..MaxForkDifficulty}
ForkNBM == \E c \in ForkChains : GossipNBM(c)
ForkTRA == \E t \in TxIn : GossipTRA(t)

ForkNext ==
    \/ ForkNBM
    \/ ForkTRA

SpecFork == InitFork /\ [][ForkNext]_vars

\* The chains a frame can carry: what peers mined, any of its blocks left as
\* it is or altered.
TamperAt(c, i, kind) ==
    IF kind = "keep" THEN c ELSE Tamper(SubSeq(c, 1, i), kind) \o SubSeq(c, i + 1, Len(c))
RECURSIVE TamperAll(_, _, _)
TamperAll(c, kinds, i) ==
    IF i > Len(c) THEN c ELSE TamperAll(TamperAt(c, i, kinds[i]), kinds, i + 1)
ProbeChains ==
    UNION {{TamperAll(PeerExtend(<<>>, n, d, <<>>), kinds, 1) :
               kinds \in [1..n -> TamperKinds \cup {"keep"}]} :
           n \in 0..MaxProbeChain, d \in 0..MaxDifficulty}

\* verify_chain applied to a chain.
ProbeVerify ==
    /\ probe = <<>>
    /\ \E c \in ProbeChains :
          probe' = <<[fn |-> "verify_chain", chain |-> c, result |-> verify_chain(c)]>>
    /\ UNCHANGED <<nodeVars, cmdChan, blockChan, workerVars, nbmSent, sendVars>>

SpecVerify == Init /\ [][ProbeVerify]_vars

\* A node with a wallet open, any pool of at most MaxProposePool pending
\* transactions, and no chain or the one-block chain of a peer.
ProposeChains(d) ==
    {<<>>, PeerExtend(<<>>, 1, d, <<>>), Tamper(PeerExtend(<<>>, 1, d, <<>>), "number")}
InitPropose ==
    /\ difficulty \in 1..MaxDifficulty
    /\ chain \in ProposeChains(difficulty)
    /\ ledger = refresh_state(EmptyDb, chain, <<>>).db
    /\ pool \in SeqsUpTo(AllTx, MaxProposePool)
    /\ signer \in {<<w>> : w \in Wallets}
    /\ cmdChan = <<>> /\ blockChan = <<>>
    /\ current = <<>> /\ running = FALSE
    /\ node = "up"
    /\ stopped = FALSE /\ lastMB = <<>> /\ superseded = FALSE
    /\ nbmSent = <<>> /\ probe = <<>>
    /\ nodeSend = <<>> /\ workerSend = <<>>

\* start typed on such a node: the handler proposes a block.
SpecPropose == InitPropose /\ [][CmdStart]_vars

\* TRA frames with any transaction arriving at such a node.
WideTRA == \E t \in AllTx : PushTRA(t, MaxProposePool + 1)
SpecTRA == InitPropose /\ [][WideTRA]_vars

\* Inclusion: a node with a wallet open and pending transactions on the empty
\* chain, where start is typed once, transactions keep arriving by send_ish
\* and by TRA frames, no stop is typed and no chain arrives.
TxPend == {[from |-> "A1", to |-> "A2", amount |-> 1], [from |-> "A2", to |-> "A1", amount |-> 1]}
InitInclusion ==
    /\ difficulty \in 1..MaxDifficulty
    /\ chain = <<>>
    /\ ledger = EmptyDb
    /\ pool \in SeqsUpTo(TxPend, MaxProposePool)
    /\ signer \in {<<w>> : w \in Wallets}
    /\ cmdChan = <<>> /\ blockChan = <<>>
    /\ current = <<>> /\ running = FALSE
    /\ node = "up"
    /\ stopped = FALSE /\ lastMB = <<>> /\ superseded = FALSE
    /\ nbmSent = <<>> /\ probe = <<>>
    /\ nodeSend = <<>> /\ workerSend = <<>>

InclusionTRA == \E t \in TxPend : PushTRA(t, MaxProposePool)

InclusionNext ==
    \/ ColdStart
    \/ ScenSendIsh
    \/ InclusionTRA
    \/ NodeMined
    \/ WorkerRecv
    \/ WorkerMine
    \/ WorkerNone

SpecInclusion == InitInclusion /\ [][InclusionNext]_vars /\ Fairness

\* Peers that write a value of their choice into the cur_hash field of a block
\* they mined and link the blocks after it to that value.
RECURSIVE RelinkFrom(_, _)
RelinkFrom(c, j) ==
    IF j > Len(c) THEN c
    ELSE RelinkFrom([c EXCEPT ![j] = Remine([c[j] EXCEPT !.prev_hash = c[j - 1].cur_hash])], j + 1)
Forge(c, i) == RelinkFrom([c EXCEPT ![i].cur_hash = OtherHash(c[i].cur_hash)], i + 1)
ForgedChains ==
    LET recv == RecvChains(chain, difficulty, pool)
    IN recv \cup UNION {{Forge(h, i) : i \in 1..Len(h)} : h \in recv}
ForgeNBM == \E c \in ForgedChains : GossipNBM(c)

ForgeNext ==
    \/ ForgeNBM
    \/ ForkTRA

SpecForge == Init /\ [][ForgeNext]_vars

\* The channels, send by send. A handler of the node loop runs up to its first
\* send and then waits in each send until the command channel has room; the
\* worker waits in block_tx.send until the block channel has room. A task that
\* waits in a send does not receive.
PublishStep == [type |-> "Publish", block |-> <<>>]

\* start with a wallet open: the proposal is built, two sends follow.
SendStart ==
    /\ Active /\ nodeSend = <<>>
    /\ signer # <<>>
    /\ nodeSend' = <<MineBlockCmd(propose_block(signer[1], chain, difficulty, pool)), StartCmd>>
    /\ UNCHANGED <<nodeVars, cmdChan, blockChan, workerVars, nbmSent, probe, workerSend>>

\* stop: one send follows.
SendStop ==
    /\ Active /\ nodeSend = <<>>
    /\ nodeSend' = <<StopCmd>>
    /\ UNCHANGED <<nodeVars, cmdChan, blockChan, workerVars, nbmSent, probe, workerSend>>

\* The mined-block branch up to its send: the block is received, applied and
\* appended, the proposal is built; the send and the broadcast follow.
SendMined ==
    /\ Active /\ nodeSend = <<>>
    /\ blockChan # <<>>
    /\ signer # <<>>
    /\ LET mined_block == Head(blockChan)
           st == progress_state(ledger, mined_block, pool)
           bc == append(chain, mined_block)
       IN /\ blockChan' = Tail(blockChan)
          /\ ledger' = st.db
          /\ pool' = st.pool
          /\ chain' = bc
          /\ nodeSend' = <<MineBlockCmd(propose_block(signer[1], bc, difficulty, st.pool)),
                           PublishStep>>
    /\ UNCHANGED <<signer, difficulty, node, cmdChan, workerVars, nbmSent, probe, workerSend>>

\* The handler goes on: command_tx.send completes when the channel has room,
\* the broadcast hands the chain to publish.
NodeSends ==
    /\ node = "up" /\ nodeSend # <<>>
    /\ IF Head(nodeSend) = PublishStep
       THEN /\ nbmSent' = Append(nbmSent, chain)
            /\ UNCHANGED cmdChan
       ELSE /\ Len(cmdChan) < CmdCap
            /\ cmdChan' = Append(cmdChan, Head(nodeSend))
            /\ UNCHANGED nbmSent
    /\ nodeSend' = Tail(nodeSend)
    /\ UNCHANGED <<nodeVars, blockChan, workerVars, probe, workerSend>>

\* The worker's select takes the command branch.
SendWorkerRecv == workerSend = <<>> /\ WorkerRecv

\* The worker's select takes the mining branch: the search ends inside the
\* poll and the handler enters block_tx.send.
SendWorkerMined ==
    /\ Active /\ workerSend = <<>>
    /\ running /\ current # <<>>
    /\ \E start \in 0..MaxStartNonce :
          workerSend' = <<proof_of_work(current[1], current[1].difficulty, start)>>
    /\ UNCHANGED <<nodeVars, cmdChan, blockChan, workerVars, nbmSent, probe, nodeSend>>

\* block_tx.send completes, then current_block = None.
SendWorkerSent ==
    /\ node = "up" /\ workerSend # <<>>
    /\ Len(blockChan) < BlockCap
    /\ blockChan' = Append(blockChan, workerSend[1])
    /\ workerSend' = <<>>
    /\ current' = <<>>
    /\ lastMB' = <<>>
    /\ UNCHANGED <<nodeVars, cmdChan, running, stopped, superseded, nbmSent, probe, nodeSend>>

SendNext ==
    \/ SendStart
    \/ SendStop
    \/ SendMined
    \/ NodeSends
    \/ SendWorkerRecv
    \/ SendWorkerMined
    \/ SendWorkerSent

SpecChannels == InitInclusion /\ [][SendNext]_vars

\* A transaction that entered the pool once: it is pending on a node with a
\* wallet open, no other transaction arrives, start is typed once and chains
\* of peers arrive.
InitOnce ==
    /\ difficulty \in 1..MaxDifficulty
    /\ chain = <<>>
    /\ ledger = EmptyDb
    /\ pool \in {<<t>> : t \in TxPend}
    /\ signer \in {<<w>> : w \in Wallets}
    /\ cmdChan = <<>> /\ blockChan = <<>>
    /\ current = <<>> /\ running = FALSE
    /\ node = "up"
    /\ stopped = FALSE /\ lastMB = <<>> /\ superseded = FALSE
    /\ nbmSent = <<>> /\ probe = <<>>
    /\ nodeSend = <<>> /\ workerSend = <<>>

OnceNBM == \E c \in RecvChains(chain, difficulty, pool) : GossipNBM(c)

OnceNext ==
    \/ ColdStart
    \/ OnceNBM
    \/ NodeMined
    \/ WorkerRecv
    \/ WorkerMine
    \/ WorkerNone

SpecOnce == InitOnce /\ [][OnceNext]_vars

\* The mined-block branch on its own: a node with a wallet open and pending
\* transactions, and a block on the block channel from any sender, passing or
\* failing the PoW check of append.
DeliveredBlocks(c, d, txs) ==
    LET mined == {proof_of_work(propose_block(w, c, d, txs), d, 0) : w \in Wallets}
    IN mined \cup {[b EXCEPT !.nonce = b.nonce + 1] : b \in mined}
InitDelivered ==
    /\ difficulty \in 1..MaxDifficulty
    /\ chain \in ProposeChains(difficulty)
    /\ ledger = refresh_state(EmptyDb, chain, <<>>).db
    /\ pool \in SeqsUpTo(TxPend, MaxProbePool)
    /\ signer \in {<<w>> : w \in Wallets}
    /\ cmdChan = <<>>
    /\ blockChan \in {<<b>> : b \in DeliveredBlocks(chain, difficulty, pool)}
    /\ current = <<>> /\ running = FALSE
    /\ node = "up"
    /\ stopped = FALSE /\ lastMB = <<>> /\ superseded = FALSE
    /\ nbmSent = <<>> /\ probe = <<>>
    /\ nodeSend = <<>> /\ workerSend = <<>>

SpecDelivered == InitDelivered /\ [][NodeMined]_vars

\* ------------------------------------------------------------- claims
Last(s) == s[Len(s)]
Count(s, t) == Cardinality({i \in 1..Len(s) : s[i] = t})
Emits == Len(blockChan') > Len(blockChan)
\* What the NBM branch leaves alone: a step that changes any of it is a step
\* of another branch.
NBMFrame == UNCHANGED <<signer, difficulty, node, blockChan, workerVars, outVars>>
PowValid(b) == LeadingZeros(Sha256([b EXCEPT !.cur_hash = ZeroHash]), b.difficulty)

\* C1: processing an NBM frame carrying chain c leaves the local chain equal to
\* c when c is longer than the local chain and verify_chain(c) succeeds, and
\* equal to the local chain of before in every other case (ties included).
C1_ForkChoice ==
    [][(vars' # vars /\ NBMFrame) =>
          \A c \in RecvChains(chain, difficulty, pool) :
             GossipNBM(c) =>
                chain' = IF Len(c) > Len(chain) /\ verify_chain(c) = "Ok" THEN c ELSE chain]_vars

\* A block mined by a peer is in the local chain: a received chain was adopted.
C1_Witness == \E i \in 1..Len(chain) : chain[i].coinbase = PeerAddr

\* C2: in every reachable state verify_chain of the local chain succeeds.
C2_ChainVerifies == verify_chain(chain) = "Ok"

\* C3: in every reachable state the local chain is well-formed: the first
\* block has number 0 and a zero prev_hash, every later block is linked to
\* its predecessor by hash and numbered one above it.
C3_WellFormed ==
    /\ Len(chain) > 0 => chain[1].number = 0 /\ chain[1].prev_hash = ZeroHash
    /\ \A i \in 2..Len(chain) :
          /\ chain[i].prev_hash = chain[i - 1].cur_hash
          /\ chain[i].number = chain[i - 1].number + 1

\* C4: every block of the local chain has a digest (taken with cur_hash
\* zeroed) with as many leading zero bytes as its own stored difficulty.
C4_ChainPowValid == \A i \in 1..Len(chain) : PowValid(chain[i])

\* The chain holds a locally mined block and a block adopted from a peer,
\* each of a difficulty of at least 1.
C4_Witness ==
    \E i, j \in 1..Len(chain) :
        /\ chain[i].coinbase \in Wallets /\ chain[i].difficulty >= 1
        /\ chain[j].coinbase = PeerAddr /\ chain[j].difficulty >= 1

\* C5: after every branch of the node loop the ledger is the replay, from
\* the empty ledger, of every block of the local chain in index order.
C5_LedgerIsReplay == ledger = refresh_state(EmptyDb, chain, <<>>).db

\* A block carrying a transaction has been applied: the receiver holds value.
C5_Witness ==
    /\ \E i \in 1..Len(chain) : chain[i].content # <<>>
    /\ ledger["A2"] > 0
    /\ ledger["A1"] > 0

\* No transaction of the blocks that the pool held at most once is left in it.
Evicted(blocks) ==
    \A i \in 1..Len(blocks) : \A k \in 1..Len(blocks[i].content) :
        LET t == blocks[i].content[k]
        IN Count(pool, t) <= 1 => Count(pool', t) = 0

\* C6: when the node adopts a block (a mined block it appends, or any block
\* of a received chain it adopts), no transaction of that block that was in
\* the pool at most once is in the pool afterwards.
C6_AdoptedEvicted ==
    [][/\ (NodeMined /\ chain' = Append(chain, Head(blockChan))) => Evicted(<<Head(blockChan)>>)
       /\ (chain' # chain /\ NBMFrame) =>
             \A c \in RecvChains(chain, difficulty, pool) :
                (GossipNBM(c) /\ chain' = c) => Evicted(c)]_vars

\* A block of a peer carrying a transaction is in the chain and the pool is empty.
C6_Witness ==
    /\ \E i \in 1..Len(chain) : chain[i].content # <<>> /\ chain[i].coinbase = PeerAddr
    /\ \E i \in 1..Len(chain) : chain[i].content # <<>> /\ chain[i].coinbase \in Wallets
    /\ pool = <<>>

\* C7: while the last Start/Restart/Stop the worker processed is a Stop, the
\* worker sends no block, whatever MineBlock commands it processes.
C7_NoEmitWhileStopped == [][stopped => ~Emits]_vars

\* The stopped worker holds a candidate and the block channel has room.
C7_Witness == stopped /\ current # <<>> /\ Len(blockChan) < BlockCap /\ superseded

\* C8: a block the worker emits is the block of the last MineBlock it
\* processed, changed in nonce and cur_hash only.
C8_EmitsLastCandidate ==
    [][Emits => lastMB # <<>> /\ SameCandidate(Last(blockChan'), lastMB[1])]_vars

\* The last MineBlock replaced a different candidate and a block was emitted since.
C8_Witness == superseded /\ lastMB = <<>> /\ current = <<>> /\ blockChan # <<>>

\* C9: with a Stop or a MineBlock pending on the command channel the worker
\* emits no block: it consumes the command first.
C9_PendingPreempts ==
    [][Emits => \A i \in 1..Len(cmdChan) : cmdChan[i].type \notin {"Stop", "MineBlock"}]_vars

\* C10: an idle worker (not running, or without a candidate) has no step to
\* take but receiving a command: it does not go round its loop.
C10_IdleOnlyReceives == (Active /\ (~running \/ current = <<>>)) => ~ENABLED WorkerNone

\* C11: a gossip message that does not decode (bytes that are not UTF-8, a
\* frame of fewer than 3 bytes, an NBM or TRA payload that is no serialization)
\* or a chain that fails verify_chain is dropped: chain, ledger and pool stay
\* as they are and the node loop keeps running.
C11_BadGossipDropped ==
    [][/\ \A value \in RawFrames :
             (GossipFrame(value) /\ try_from(value).kind # "SthElse") =>
                (node' = "up" /\ UNCHANGED <<chain, ledger, pool>>)
       /\ (vars' # vars /\ NBMFrame) =>
             \A c \in RecvChains(chain, difficulty, pool) :
                (GossipNBM(c) /\ verify_chain(c) # "Ok") =>
                   UNCHANGED <<chain, ledger, pool>>]_vars

\* C12: decoding a frame yields ParseError when the bytes are not UTF-8 and
\* when the frame has fewer than 3 bytes, and aborts for no frame.
C12_DecodeNeverAborts ==
    [][\A value \in RawFrames :
          GossipFrame(value) =>
             /\ try_from(value).kind # "SlicePanic"
             /\ (~ValidUtf8(value) \/ Len(value) < 3) => try_from(value).kind = "ParseError"]_vars

\* C13: when a received chain is not adopted (not longer than the local
\* chain, or failing verification) the chain, the ledger, the pool and the
\* command channel are after the step what they were before it.
C13_RejectChangesNothing ==
    [][(vars' # vars /\ NBMFrame) =>
          \A c \in RecvChains(chain, difficulty, pool) :
             (GossipNBM(c) /\ ~(Len(c) > Len(chain) /\ verify_chain(c) = "Ok")) =>
                UNCHANGED <<chain, ledger, pool, cmdChan>>]_vars

\* C14: on adoption of a received chain with a signer open the loop enqueues
\* one command, a MineBlock for the successor of the new tip (number one above
\* the tip's, prev_hash the tip's cur_hash), and the worker consuming a
\* MineBlock keeps its running flag.
C14_AdoptionReproposes ==
    [][/\ (chain' # chain /\ NBMFrame /\ signer # <<>>) =>
             /\ Len(cmdChan') = Len(cmdChan) + 1
             /\ SubSeq(cmdChan', 1, Len(cmdChan)) = cmdChan
             /\ Last(cmdChan').type = "MineBlock"
             /\ Last(cmdChan').block[1].number = Last(chain').number + 1
             /\ Last(cmdChan').block[1].prev_hash = Last(chain').cur_hash
       /\ (WorkerRecv /\ Head(cmdChan).type = "MineBlock") => running' = running]_vars

\* A stopped worker holds the successor of a tip mined by a peer.
C14_Witness ==
    /\ stopped /\ ~running /\ current # <<>> /\ chain # <<>>
    /\ Last(chain).coinbase = PeerAddr
    /\ current[1].number = Last(chain).number + 1
    /\ current[1].prev_hash = Last(chain).cur_hash

\* C15: a block the running worker emits holds the transactions of the pool
\* (the first MaxBlockTx of them), so that processing the next mined block
\* after a send_ish takes the transaction out of the pool and moves the amount.
C15_NextBlockHoldsPool ==
    [][Emits =>
          \A k \in 1..Len(FirstK(pool, MaxBlockTx)) :
             \E j \in 1..Len(Last(blockChan').content) :
                Last(blockChan').content[j] = pool[k]]_vars

\* A stop was typed: it waits in the command channel or the worker took it.
StopTyped == stopped \/ \E i \in 1..Len(cmdChan) : cmdChan[i].type = "Stop"

\* start was just typed on the empty chain with the wallet of A1 open.
ColdStarted ==
    /\ node = "up" /\ signer = <<"A1">> /\ chain = <<>> /\ blockChan = <<>>
    /\ Len(cmdChan) = 2 /\ cmdChan[1].type = "MineBlock" /\ cmdChan[2].type = "Start"

\* The first block is on the chain: number 0, coinbase A1, an all-zero
\* prev_hash, and one reward for A1 when the block carries no transaction.
ColdGenesis ==
    /\ Len(chain) = 1
    /\ chain[1].number = 0 /\ chain[1].coinbase = "A1" /\ chain[1].prev_hash = ZeroHash
    /\ chain[1].content = <<>> => ledger["A1"] = BlockReward

\* The second block is on the chain, linked to the first, and A1 holds two
\* rewards when neither block carries a transaction.
ColdSecond ==
    /\ Len(chain) = 2
    /\ chain[2].prev_hash = chain[1].cur_hash
    /\ chain[2].coinbase = "A1"
    /\ (chain[1].content = <<>> /\ chain[2].content = <<>>) => ledger["A1"] = 2 * BlockReward

\* C16: cold start. With the wallet of A1 open and start typed on the empty
\* chain, no gossip arriving and no stop typed, the chain eventually holds
\* one block (number 0, coinbase A1, zero prev_hash, balance(A1) = 1) and
\* after that eventually a second block linked to it (balance(A1) = 2).
C16_ColdStart ==
    /\ ColdStarted ~> (ColdGenesis \/ StopTyped)
    /\ ColdGenesis ~> (ColdSecond \/ StopTyped)

\* Two blocks were mined from cold with no transaction and no stop.
C16_Witness ==
    /\ ColdSecond /\ ~StopTyped
    /\ chain[1].content = <<>> /\ chain[2].content = <<>>
    /\ chain[1].number = 0 /\ ledger["A1"] = 2

\* C17: an unknown command, an empty address line with no signer open and a
\* malformed address leave chain, ledger, pool, signer and the command channel
\* as they are, and the node loop goes on.
C17_InputErrorsHarmless ==
    [][(\/ CmdUnknown
        \/ \E line \in AddrLines : CmdGetBalance(line) /\ PromptAddr(line) = <<>>
        \/ \E s \in SrcLines, d \in DstLines, a \in AmountLines :
              CmdSendIsh(s, d, a) /\ (PromptAddr(s) = <<>> \/ PromptAddr(d) = <<>>))
         => (node' = "up" /\ UNCHANGED <<chain, ledger, pool, signer, cmdChan>>)]_vars

\* C18: start with a signer set enqueues MineBlock(candidate) then Start, the
\* candidate being the genesis proposal on an empty chain and the successor of
\* the tip otherwise; with no signer it enqueues nothing; either way chain,
\* ledger, pool and signer stay as they are.
StartCandidate ==
    [coinbase |-> signer[1],
     number |-> IF chain = <<>> THEN 0 ELSE Last(chain).number + 1,
     nonce |-> 0, difficulty |-> difficulty, cur_hash |-> ZeroHash,
     prev_hash |-> IF chain = <<>> THEN ZeroHash ELSE Last(chain).cur_hash,
     content |-> SubSeq(pool, 1, IF Len(pool) < 3 THEN Len(pool) ELSE 3)]
C18_StartEnqueues ==
    [][CmdStart =>
          /\ IF signer # <<>>
             THEN cmdChan' = cmdChan \o <<[type |-> "MineBlock", block |-> <<StartCandidate>>],
                                          [type |-> "Start", block |-> <<>>]>>
             ELSE cmdChan' = cmdChan
          /\ UNCHANGED <<chain, ledger, pool, signer>>]_vars

\* start was typed on a chain that holds a block: MineBlock(successor), Start wait.
C18_Witness ==
    /\ chain # <<>> /\ Len(cmdChan) = 2
    /\ cmdChan[1].type = "MineBlock" /\ cmdChan[2].type = "Start"
    /\ cmdChan[1].block[1].prev_hash = Last(chain).cur_hash
    /\ cmdChan[1].block[1].number = Last(chain).number + 1

\* A Stop, or a Start, waits in the command channel.
StopPending == \E i \in 1..Len(cmdChan) : cmdChan[i].type = "Stop"
StartPending == \E i \in 1..Len(cmdChan) : cmdChan[i].type = "Start"

\* The worker, running again, has sent the candidate it held.
Resumed == running /\ ~stopped /\ current = <<>>

\* C19: worker cancellation. After start and stop the worker eventually takes
\* the Stop, so it sends finitely many blocks after the Stop was enqueued; it
\* sends none from then until a Start is taken; and a later start makes it
\* send again unless another stop is typed first. Runs are followed while
\* the chain holds fewer than MaxChain blocks.
C19_Cancellation ==
    /\ StopPending ~> (stopped \/ ~Active)
    /\ [][stopped => ~Emits]_vars
    /\ (stopped /\ StartPending) ~> (Resumed \/ StopPending \/ ~Active)

\* The worker was stopped with a candidate in hand and a later start waits.
C19_Witness == stopped /\ current # <<>> /\ StartPending /\ ~StopPending /\ Active

\* C20: get_balance reads out the balance modulo 2^64 and never fails, for
\* every ledger, balances that wrapped below zero included.
C20_ReadOutTruncates ==
    [][\A line \in AddrLines :
          (CmdGetBalance(line) /\ PromptAddr(line) # <<>>) =>
             get_balance(ledger, PromptAddr(line)[1]) = <<ledger[PromptAddr(line)[1]] % U64Mod>>]_vars

\* C21: the mined-block branch, for the block B it receives, applies B to the
\* ledger (evicting from the pool), appends B to the chain, enqueues one
\* command, MineBlock of the successor of B built from the pool after the
\* eviction, and broadcasts the chain that now ends in B; it enqueues no Start
\* and no Stop, and the loop goes on.
C21_MinedBlockBranch ==
    [][NodeMined =>
          LET B == Head(blockChan)
              st == progress_state(ledger, B, pool)
          IN /\ node' = "up"
             /\ ledger' = st.db /\ pool' = st.pool
             /\ chain' = Append(chain, B)
             /\ Len(cmdChan') = Len(cmdChan) + 1
             /\ SubSeq(cmdChan', 1, Len(cmdChan)) = cmdChan
             /\ Last(cmdChan').type = "MineBlock"
             /\ Last(cmdChan').block[1].prev_hash = B.cur_hash
             /\ Last(cmdChan').block[1].number = B.number + 1
             /\ Last(cmdChan').block[1].content = FirstK(pool', MaxBlockTx)
             /\ nbmSent' = Append(nbmSent, chain')]_vars

\* The ledger of the specification: a debit, then a credit, one after the other.
Credit(db, a, n) == [db EXCEPT ![a] = (db[a] + n) % U256Mod]
Debit(db, a, n) == [db EXCEPT ![a] = (db[a] - n) % U256Mod]
RECURSIVE Transfers(_, _)
Transfers(db, txs) ==
    IF txs = <<>> THEN db
    ELSE Transfers(Credit(Debit(db, Head(txs).from, Head(txs).amount),
                          Head(txs).to, Head(txs).amount), Tail(txs))

\* The pool without its first entry equal to t, the others in their order.
WithoutFirst(p, t) ==
    IF \A i \in 1..Len(p) : p[i] # t THEN p
    ELSE LET i == CHOOSE j \in 1..Len(p) : p[j] = t /\ \A k \in 1..(j - 1) : p[k] # t
         IN SubSeq(p, 1, i - 1) \o SubSeq(p, i + 1, Len(p))
RECURSIVE Evictions(_, _)
Evictions(p, txs) == IF txs = <<>> THEN p ELSE Evictions(WithoutFirst(p, Head(txs)), Tail(txs))

\* C22: applying a block credits its coinbase by 1, then for each transaction
\* in order debits from and credits to by the amount and removes from the pool
\* the first entry equal to it, the other entries keeping their order; every
\* other balance stays.
C22_BlockApplication ==
    (probe # <<>> /\ probe[1].fn = "progress_state") =>
        LET c == probe[1]
        IN /\ c.result.db = Transfers(Credit(c.db, c.block.coinbase, BlockReward), c.block.content)
           /\ c.result.pool = Evictions(c.pool, c.block.content)

\* C23: proposing a block leaves the pool as it is and yields a candidate
\* whose content is the first min(3, len(pool)) pool entries in pool order,
\* with nonce 0 and a zero cur_hash; on the empty chain number 0 and a zero
\* prev_hash, otherwise the number after the tip's and the tip's cur_hash.
C23_ProposalReadsPool ==
    [][CmdStart =>
          LET b == cmdChan'[1].block[1]
          IN /\ pool' = pool
             /\ Len(b.content) = (IF Len(pool) < 3 THEN Len(pool) ELSE 3)
             /\ \A k \in 1..Len(b.content) : b.content[k] = pool[k]
             /\ b.nonce = 0 /\ b.cur_hash = ZeroHash
             /\ IF chain = <<>>
                THEN b.number = 0 /\ b.prev_hash = ZeroHash
                ELSE b.number = Last(chain).number + 1 /\ b.prev_hash = Last(chain).cur_hash]_vars

\* A successor was proposed from a pool of more than three different entries.
C23_Witness ==
    /\ Len(pool) > 3 /\ pool[1] # pool[4] /\ chain # <<>>
    /\ cmdChan # <<>> /\ cmdChan[1].type = "MineBlock"
    /\ cmdChan[1].block[1].content = SubSeq(pool, 1, 3)

\* The blocks a step brings into the local chain: the blocks after the old
\* chain when the new one extends it, every block of a chain adopted in its place.
NewBlocks(old, new) ==
    IF new = old THEN <<>>
    ELSE IF Len(new) > Len(old) /\ SubSeq(new, 1, Len(old)) = old
         THEN SubSeq(new, Len(old) + 1, Len(new))
    ELSE new
\* The occurrences of t in the contents of blocks.
RECURSIVE Occurrences(_, _)
Occurrences(blocks, t) ==
    IF blocks = <<>> THEN 0 ELSE Count(Head(blocks).content, t) + Occurrences(Tail(blocks), t)

\* C24: a step of the running node takes a transaction out of the pool at
\* most as many times as it occurs in the blocks the step brings into the
\* chain: a pending copy is not evicted because an NBM frame is received and
\* the ledger is rebuilt over blocks already accounted for.
C24_EvictedOncePerOccurrence ==
    [][node' = "up" =>
          \A k \in 1..Len(pool) :
             Count(pool, pool[k]) - Count(pool', pool[k])
                <= Occurrences(NewBlocks(chain, chain'), pool[k])]_vars

\* C25: processing a TRA frame that carries transaction t puts t at the end
\* of the pool, the entries before it and their order as they were, and
\* leaves chain, ledger, signer and the command channel as they are.
C25_TRAAppends ==
    [][\A t \in AllTx :
          PushTRA(t, MaxProposePool + 1) =>
             /\ Len(pool') = Len(pool) + 1
             /\ \A k \in 1..Len(pool) : pool'[k] = pool[k]
             /\ pool'[Len(pool')] = t
             /\ UNCHANGED <<chain, ledger, signer, cmdChan>>]_vars

\* A transaction was pushed behind four others, the first of them a different one.
C25_Witness == Len(pool) = MaxProposePool + 1 /\ pool[1] # pool[Len(pool)] /\ chain # <<>>

\* C26: verify_chain returns InvalidProofOfWork when some block fails the PoW
\* predicate at its stored difficulty, otherwise PrevHashMismatch when some
\* block's prev_hash is not the cur_hash of the block before it, otherwise
\* success; the empty chain succeeds, and a broken link below a PoW-invalid
\* block is reported as InvalidProofOfWork.
C26_VerifyChainResult ==
    (probe # <<>> /\ probe[1].fn = "verify_chain") =>
        LET c == probe[1].chain
            badPow == \E i \in 1..Len(c) : ~PowValid(c[i])
            badLink == \E i \in 2..Len(c) : c[i].prev_hash # c[i - 1].cur_hash
        IN /\ badPow => probe[1].result = "InvalidProofOfWork"
           /\ (~badPow /\ badLink) => probe[1].result = "PrevHashMismatch"
           /\ (~badPow /\ ~badLink) => probe[1].result = "Ok"
           /\ c = <<>> => probe[1].result = "Ok"

\* A chain with a broken link at its second block and a PoW-invalid third block.
C26_Witness ==
    /\ probe # <<>> /\ probe[1].fn = "verify_chain" /\ Len(probe[1].chain) = 3
    /\ probe[1].chain[2].prev_hash # probe[1].chain[1].cur_hash
    /\ PowValid(probe[1].chain[1]) /\ PowValid(probe[1].chain[2])
    /\ ~PowValid(probe[1].chain[3])
    /\ probe[1].result = "InvalidProofOfWork"

\* C27: the worker starts with no candidate and not running; MineBlock(b)
\* makes b the candidate and leaves running; Start and Restart set running
\* and leave the candidate; Stop clears running and leaves the candidate.
C27_WorkerCommands ==
    /\ (current = <<>> /\ running = FALSE)
    /\ [][WorkerRecv =>
             LET cmd == Head(cmdChan)
             IN CASE cmd.type = "MineBlock" -> current' = cmd.block /\ running' = running
                  [] cmd.type \in {"Start", "Restart"} -> running' = TRUE /\ current' = current
                  [] cmd.type = "Stop" -> running' = FALSE /\ current' = current]_vars

\* A stopped worker still holds the candidate of its last MineBlock, and a
\* Restart is the next command.
C27_Witness ==
    /\ stopped /\ ~running /\ current # <<>> /\ current = lastMB
    /\ cmdChan # <<>> /\ Head(cmdChan).type = "Restart"

\* C28: the worker is one-shot per candidate. A block is only sent while
\* running with a candidate and leaves the worker running with none; between
\* two blocks sent a MineBlock was processed, so the blocks sent never
\* outnumber the MineBlock commands processed.
C28_OneShot ==
    [][Emits => /\ running /\ current # <<>> /\ lastMB # <<>>
                /\ running' /\ current' = <<>>]_vars

\* The running worker has sent its candidate and the next MineBlock waits.
C28_Witness ==
    /\ running /\ current = <<>> /\ lastMB = <<>> /\ blockChan # <<>>
    /\ cmdChan # <<>> /\ Head(cmdChan).type = "MineBlock"

\* C30: a block the worker sends for candidate b is b changed in nonce and
\* cur_hash only, its cur_hash is the digest of the block with cur_hash
\* zeroed, the digest has b.difficulty leading zero bytes, and append takes it.
C30_EmittedBlockValid ==
    [][Emits =>
          LET e == Last(blockChan')
              b == current[1]
          IN /\ SameCandidate(e, b)
             /\ e.cur_hash = Sha256([e EXCEPT !.cur_hash = ZeroHash])
             /\ LeadingZeros(e.cur_hash, b.difficulty)
             /\ append(chain, e) = Append(chain, e)]_vars

\* A block was sent whose search went past the first nonce.
C30_Witness ==
    /\ blockChan # <<>> /\ Head(blockChan).nonce > 0 /\ Head(blockChan).difficulty >= 1
    /\ PowValid(Head(blockChan))

\* What makes a received chain acceptable, read off the chain alone.
Adoptable(c) ==
    /\ \A i \in 1..Len(c) : PowValid(c[i])
    /\ \A i \in 2..Len(c) : c[i].prev_hash = c[i - 1].cur_hash

\* C29: whether a received chain c is adopted is decided by c and the length
\* of the local chain alone, whatever the configured difficulty: c replaces
\* the local chain exactly when it is longer and each of its blocks passes
\* the PoW predicate at the difficulty of its own header and the links hold;
\* so two nodes with local chains of one length decide alike, and a longer
\* chain declaring less than the configured difficulty is adopted.
C29_AdoptionIgnoresConfiguredDifficulty ==
    [][(vars' # vars /\ NBMFrame) =>
          \A c \in ForkChains :
             GossipNBM(c) =>
                /\ chain' = IF Len(c) > Len(chain) /\ Adoptable(c) THEN c ELSE chain
                /\ (/\ Len(c) > Len(chain) /\ verify_chain(c) = "Ok"
                    /\ \E i \in 1..Len(c) : c[i].difficulty < difficulty) => chain' = c]_vars

\* A node configured with the largest difficulty holds an adopted chain whose
\* blocks declare difficulty 0.
C29_Witness ==
    /\ difficulty = MaxForkDifficulty
    /\ Len(chain) = MaxChain
    /\ \A i \in 1..Len(chain) : chain[i].difficulty = 0 /\ chain[i].coinbase = PeerAddr

InChain(t) == \E i \in 1..Len(chain) : Count(chain[i].content, t) > 0

C32_HashBinding ==
    /\ \A i \in 1..Len(chain) : chain[i].cur_hash = Sha256([chain[i] EXCEPT !.cur_hash = ZeroHash])
    /\ \A i \in 2..Len(chain) :
          chain[i].prev_hash = Sha256([chain[i - 1] EXCEPT !.cur_hash = ZeroHash])

\* C33: applying a transaction whose from and to are one address leaves the
\* balance of that address as it was, for every amount and every balance: a
\* block of such transactions changes the ledger by the reward only.
C33_SelfTransferNeutral ==
    (/\ probe # <<>> /\ probe[1].fn = "progress_state"
     /\ \A k \in 1..Len(probe[1].block.content) :
           probe[1].block.content[k].from = probe[1].block.content[k].to)
        => probe[1].result.db = Credit(probe[1].db, probe[1].block.coinbase, BlockReward)

\* The sum of the balances of a ledger.
RECURSIVE SumOver(_, _)
SumOver(db, S) ==
    IF S = {} THEN 0 ELSE LET a == CHOOSE x \in S : TRUE IN db[a] + SumOver(db, S \ {a})
Supply(db) == SumOver(db, Addr)

\* Every transaction of the blocks, applied in order from ledger db, moves
\* between two addresses an amount the sender holds when it is debited.
RECURSIVE CleanTxs(_, _)
CleanTxs(db, txs) ==
    IF txs = <<>> THEN TRUE
    ELSE LET t == Head(txs)
         IN /\ t.from # t.to
            /\ t.amount <= db[t.from]
            /\ CleanTxs(Credit(Debit(db, t.from, t.amount), t.to, t.amount), Tail(txs))
RECURSIVE CleanBlocks(_, _)
CleanBlocks(db, blocks) ==
    IF blocks = <<>> THEN TRUE
    ELSE LET db1 == Credit(db, Head(blocks).coinbase, BlockReward)
         IN /\ CleanTxs(db1, Head(blocks).content)
            /\ CleanBlocks(Transfers(db1, Head(blocks).content), Tail(blocks))

\* C34: supply conservation. When every transaction applied to reach the
\* ledger had from # to and an amount the sender held at its debit, the
\* balances of the ledger add up to the number of blocks of the local chain.
C34_SupplyConserved ==
    (node = "up" /\ CleanBlocks(EmptyDb, chain)) => Supply(ledger) = Len(chain) * BlockReward

\* A block mined with the wallet of A1 and a later block that moves the reward
\* on to A2: every debit was covered.
C34_Witness ==
    /\ Len(chain) = 2 /\ CleanBlocks(EmptyDb, chain)
    /\ chain[1].coinbase = "A1" /\ chain[2].content # <<>>
    /\ ledger["A2"] >= 1 /\ Supply(ledger) = 2

\* C35: whenever the node loop processes a mined block a signer is set, so
\* the next candidate is built and the loop goes on, after every sequence of
\* commands.
C35_SignerSetWhenMined ==
    [][NodeMined => (signer # <<>> /\ node' = "up")]_vars

\* The node loop waits in a send on the full command channel.
NodeBlocked == nodeSend # <<>> /\ Head(nodeSend) # PublishStep /\ Len(cmdChan) = CmdCap
\* The worker waits in a send on the full block channel.
WorkerBlocked == workerSend # <<>> /\ Len(blockChan) = BlockCap

\* C36: deadlock freedom on the bounded channels. In no reachable state does
\* the node loop wait in a send on the full command channel while the worker
\* waits in a send on the full block channel.
C36_NoChannelDeadlock == ~(NodeBlocked /\ WorkerBlocked)

\* C37: no transaction is lost. A transaction that is in the pool or in a
\* block of the local chain is, after every step of the running node, in the
\* pool or in a block of the local chain, a reorg included. (Every transaction
\* of a block of the local chain was in the pool before: blocks are built,
\* here and by peers, from the pending transactions.)
C37_NoTxLost ==
    [][node' = "up" =>
          \A t \in TxIn :
             (Count(pool, t) > 0 \/ InChain(t)) => (Count(pool', t) > 0 \/ InChain(t)')]_vars

\* C38: a transaction that entered the pool once occurs at most once in the
\* blocks of the local chain, so the ledger has it applied at most once, also
\* when the worker holds a candidate with it while a chain with it is adopted.
C38_AppliedAtMostOnce == \A t \in TxPend : Occurrences(chain, t) <= 1

\* C39: the length of the local chain never decreases. Every step of the
\* running node leaves the chain as it is, appends one block to it, or puts a
\* strictly longer chain in its place; the mined-block branch appends the
\* block it received or nothing.
C39_ChainNeverShrinks ==
    [][node' = "up" =>
          /\ \/ chain' = chain
             \/ Len(chain') = Len(chain) + 1 /\ SubSeq(chain', 1, Len(chain)) = chain
             \/ Len(chain') > Len(chain)
          /\ NodeMined => chain' \in {chain, Append(chain, Head(blockChan))}]_vars

\* A block mined locally was broadcast and the chain now holds the two blocks
\* of a peer: a longer chain took the place of the local one.
C39_Witness ==
    /\ nbmSent # <<>> /\ Len(chain) = 2
    /\ \A i \in 1..Len(chain) : chain[i].coinbase = PeerAddr

====
